---- MODULE Spec2Model ----
(***************************************************************************)
(* Model of src/index.js: the `todos` table, the five tools the agent can  *)
(* call (add_todo, delete_todo, search_todo, restore_todo, read_todo) and   *)
(* the CLI chat loop that owns the PostgreSQL connection.                   *)
(*                                                                         *)
(* Text is modelled as a sequence of one-character strings, so that        *)
(* parseInt, ILIKE, toLowerCase and the template literals are computed     *)
(* character by character.                                                 *)
(***************************************************************************)
EXTENDS Integers, Sequences, FiniteSets, TLC

VARIABLES todos, nextId, last, pc, userInput, turn, dbOpen, endCalls

vars == <<todos, nextId, last, pc, userInput, turn, dbOpen, endCalls>>

(* ------------------------------ bounds -------------------------------- *)
\* rows the table may hold (add_todo is not offered beyond it)
MaxRows == 3

\* contents handed to add_todo: empty, a lower-case letter, an upper-case
\* letter followed by a digit
Contents == { <<>>, <<"a">>, <<"A", "1">> }

\* keywords handed to delete_todo, restore_todo and search_todo: empty, a
\* letter in both cases, a digit, the two LIKE wildcards alone and after a
\* letter, and a digit followed by a letter
Keywords ==
  { <<>>, <<"a">>, <<"A">>, <<"1">>, <<"%">>, <<"_">>, <<"a", "_">>, <<"1", "a">> }

(* ------------------------- JavaScript strings ------------------------- *)
UpperCase == <<"A","B","C","D","E","F","G","H","I","J","K","L","M",
               "N","O","P","Q","R","S","T","U","V","W","X","Y","Z">>
LowerCase == <<"a","b","c","d","e","f","g","h","i","j","k","l","m",
               "n","o","p","q","r","s","t","u","v","w","x","y","z">>
Digits == <<"0","1","2","3","4","5","6","7","8","9">>

LowerChar(c) ==
  IF \E i \in 1..26 : UpperCase[i] = c
  THEN LowerCase[CHOOSE i \in 1..26 : UpperCase[i] = c]
  ELSE c

\* String.prototype.toLowerCase
toLowerCase(s) == [i \in 1..Len(s) |-> LowerChar(s[i])]

IsDigit(c) == \E i \in 1..10 : Digits[i] = c
DigitVal(c) == (CHOOSE i \in 1..10 : Digits[i] = c) - 1

IsWhiteSpace(c) == c \in {" ", "\t", "\n", "\r"}

RECURSIVE SkipWhiteSpace(_)
SkipWhiteSpace(s) ==
  IF s # <<>> /\ IsWhiteSpace(Head(s)) THEN SkipWhiteSpace(Tail(s)) ELSE s

\* the 32-bit integer type of the id column (SERIAL)
Int4Max == 2147483647
Int4Min == 0 - Int4Max - 1

\* minus the value of the longest prefix of decimal digits of s, continuing
\* from acc <= 0; 1 once the value has left the 32-bit range
RECURSIVE NegDigitPrefix(_, _)
NegDigitPrefix(s, acc) ==
  IF s # <<>> /\ IsDigit(Head(s))
  THEN LET d == DigitVal(Head(s))
       IN IF acc = 1 THEN 1
          ELSE IF \/ acc > 0 - (Int4Max \div 10)
                  \/ (acc = 0 - (Int4Max \div 10) /\ d <= (Int4Max % 10) + 1)
               THEN NegDigitPrefix(Tail(s), 10 * acc - d)
               ELSE NegDigitPrefix(Tail(s), 1)
  ELSE acc

\* parseInt(str) with no radix, on strings without a "0x" prefix: leading
\* white space is skipped, a sign is read, then the longest run of decimal
\* digits; no digit at that place gives NaN.  big: the number is outside
\* the 32-bit range (val is then not used).
parseInt(str) ==
  LET t == SkipWhiteSpace(str)
      neg == t # <<>> /\ Head(t) = "-"
      u == IF t # <<>> /\ Head(t) \in {"-", "+"} THEN Tail(t) ELSE t
      m == NegDigitPrefix(u, 0)
  IN IF u # <<>> /\ IsDigit(Head(u))
     THEN IF m = 1 \/ (~neg /\ m = Int4Min)
          THEN [nan |-> FALSE, big |-> TRUE, val |-> 0]
          ELSE [nan |-> FALSE, big |-> FALSE, val |-> IF neg THEN m ELSE 0 - m]
     ELSE [nan |-> TRUE, big |-> FALSE, val |-> 0]

\* decimal digits of a natural number, as `${n}` prints it
RECURSIVE NatToStr(_)
NatToStr(n) ==
  IF n < 10 THEN <<Digits[n + 1]>>
  ELSE NatToStr(n \div 10) \o <<Digits[(n % 10) + 1]>>

(* --------------------------- PostgreSQL text -------------------------- *)
\* s LIKE p: % is any run of characters, _ any one character, a backslash
\* makes the next pattern character literal
RECURSIVE LikeMatch(_, _)
LikeMatch(p, s) ==
  IF p = <<>> THEN s = <<>>
  ELSE IF Head(p) = "%"
       THEN LikeMatch(Tail(p), s) \/ (s # <<>> /\ LikeMatch(p, Tail(s)))
  ELSE IF Head(p) = "_"
       THEN s # <<>> /\ LikeMatch(Tail(p), Tail(s))
  ELSE IF Head(p) = "\\" /\ Len(p) > 1
       THEN s # <<>> /\ Head(s) = p[2] /\ LikeMatch(Tail(Tail(p)), Tail(s))
  ELSE s # <<>> /\ Head(s) = Head(p) /\ LikeMatch(Tail(p), Tail(s))

\* s ILIKE p
ILike(s, p) == LikeMatch(toLowerCase(p), toLowerCase(s))

\* the template literal `%${keyword}%`
Pattern(keyword) == <<"%">> \o keyword \o <<"%">>



(* ------------------------------ the table ------------------------------ *)
\* a row of `todos`: id SERIAL PRIMARY KEY, content TEXT NOT NULL,
\* status TEXT DEFAULT 'active'
Row(id, content, status) == [id |-> id, content |-> content, status |-> status]

Ids(t) == {r.id : r \in t}

\* the rows of set S in every order (a SELECT without ORDER BY may
\* return them in any)
RECURSIVE AnyOrder(_)
AnyOrder(S) ==
  IF S = {} THEN {<<>>}
  ELSE UNION {{<<r>> \o q : q \in AnyOrder(S \ {r})} : r \in S}

\* mutant of ByIdDesc: ORDER BY id ASC
RECURSIVE ByIdAsc(_)
ByIdAsc(S) ==
  IF S = {} THEN <<>>
  ELSE LET low == CHOOSE r \in S : \A o \in S : o.id >= r.id
       IN <<low>> \o ByIdAsc(S \ {low})

\* the rows of set S, ORDER BY id DESC
RECURSIVE ByIdDesc(_)
ByIdDesc(S) ==
  IF S = {} THEN <<>>
  ELSE LET top == CHOOSE r \in S : \A o \in S : o.id <= r.id
       IN <<top>> \o ByIdDesc(S \ {top})

(* --------------------------- rendered replies -------------------------- *)
NoTodosFound ==
  <<"N","o"," ","t","o","d","o","s"," ","f","o","u","n","d",".">>
NoMatchingTodosFound ==
  <<"N","o"," ","m","a","t","c","h","i","n","g"," ","t","o","d","o","s"," ",
    "f","o","u","n","d",".">>
NoDeletedTodosMatched ==
  <<"N","o"," ","d","e","l","e","t","e","d"," ","t","o","d","o","s"," ",
    "m","a","t","c","h","e","d",".">>
ItemsSuffix == <<" ","i","t","e","m","(","s",")">>

\* `Added: "${content}"`
AddedText(content) ==
  <<"A","d","d","e","d",":"," ","\"">> \o content \o <<"\"">>
\* `Deleted ${res.rowCount} item(s)`
DeletedText(n) ==
  <<"D","e","l","e","t","e","d"," ">> \o NatToStr(n) \o ItemsSuffix
\* `Restored ${res.rowCount} item(s)`
RestoredText(n) ==
  <<"R","e","s","t","o","r","e","d"," ">> \o NatToStr(n) \o ItemsSuffix

StatusText(st) ==
  IF st = "active" THEN <<"a","c","t","i","v","e">>
  ELSE <<"d","e","l","e","t","e","d">>

\* `#${r.id} - ${r.content} [${r.status}]`
RowLine(r) ==
  <<"#">> \o NatToStr(r.id) \o <<" ","-"," ">> \o r.content
          \o <<" ","[">> \o StatusText(r.status) \o <<"]">>

\* rows.map(...).join("\n")
RECURSIVE JoinLines(_)
JoinLines(rows) ==
  IF Len(rows) = 1 THEN RowLine(rows[1])
  ELSE RowLine(rows[1]) \o <<"\n">> \o JoinLines(Tail(rows))

\* the reply of search_todo and read_todo
Listing(rows) == IF Len(rows) > 0 THEN JoinLines(rows) ELSE NoTodosFound

(* ------------------------- what a tool returned ------------------------ *)
\* op: the tool; arg: its text argument; showAll: read_todo's flag;
\* err: "none", "query" (the statement was rejected) or "fault" (the
\* storage was unreachable); rowCount, rows: res.rowCount, res.rows;
\* out: the returned text
Call(op, arg, showAll, err, rowCount, rows, out) ==
  [op |-> op, arg |-> arg, showAll |-> showAll, err |-> err,
   rowCount |-> rowCount, rows |-> rows, out |-> out]

NoCall == Call("none", <<>>, FALSE, "none", 0, <<>>, <<>>)

Tools == {"add_todo", "delete_todo", "search_todo", "restore_todo", "read_todo"}

(* ----------------------------- the queries ----------------------------- *)
\* mutant of InsertTodo: an upsert that replaces the rows of equal content
InsertTodoReplacing(t, id, content) ==
  {r \in t : r.content # content} \cup {Row(id, content, "active")}

\* INSERT INTO todos (content) VALUES ($1): id from the sequence, status
\* from the column default
InsertTodo(t, id, content) == t \cup {Row(id, content, "active")}

\* WHERE content ILIKE $1                              (delete_todo)
DeleteWhere(t, keyword) == {r \in t : ILike(r.content, Pattern(keyword))}

\* mutant of RestoreWhere: the status condition is missing
RestoreWhereAnyStatus(t, keyword) ==
  {r \in t : ILike(r.content, Pattern(keyword))}

\* WHERE content ILIKE $1 AND status='deleted'         (restore_todo)
RestoreWhere(t, keyword) ==
  {r \in t : ILike(r.content, Pattern(keyword)) /\ r.status = "deleted"}

\* WHERE id=$1                                         (search_todo, id path)
SearchById(t, idNum) == {r \in t : r.id = idNum}

\* mutant of SearchByText: the status condition is missing
SearchByTextAnyStatus(t, keywordOrId) ==
  {r \in t : ILike(r.content, Pattern(keywordOrId))}

\* WHERE content ILIKE $1 AND status='active'          (search_todo, text path)
SearchByText(t, keywordOrId) ==
  {r \in t : ILike(r.content, Pattern(keywordOrId)) /\ r.status = "active"}

\* the WHERE clause of read_todo's two queries
ReadWhere(t, showAll) == IF showAll THEN t ELSE {r \in t : r.status = "active"}

\* mutant of UpdateStatus: the rows are removed (a hard delete)
UpdateStatusRemoving(t, S, st) == t \ S

\* UPDATE todos SET status=st on the rows S of t
UpdateStatus(t, S, st) ==
  {IF r \in S THEN [r EXCEPT !.status = st] ELSE r : r \in t}

\* showAll: z.boolean().default(false)
ShowAllInputs == {"true", "false", "omitted"}
ShowAllValue(given) == IF given = "omitted" THEN FALSE ELSE given = "true"

\* a numeric argument beyond the id column's type
OutOfRangeId == <<"2","1","4","7","4","8","3","6","4","8">>
\* arguments of search_todo: keywords, ids in decimal, the one above
SearchArgs ==
  Keywords \cup {NatToStr(i) : i \in 0..(MaxRows + 1)} \cup {OutOfRangeId}

(* ------------------------------ the tools ------------------------------ *)
\* a tool runs while agent.invoke is awaited
InTurn == pc = "invoke"

LoopUnchanged == UNCHANGED <<pc, userInput, turn, dbOpen, endCalls>>

AddTodo(content) ==
  /\ InTurn
  /\ nextId <= MaxRows
  /\ todos' = InsertTodo(todos, nextId, content)
  /\ nextId' = nextId + 1
  /\ last' = Call("add_todo", content, FALSE, "none", 1, <<>>, AddedText(content))
  /\ LoopUnchanged

DeleteTodo(keyword) ==
  /\ InTurn
  /\ LET hit == DeleteWhere(todos, keyword)
         rowCount == Cardinality(hit)
     IN /\ todos' = UpdateStatus(todos, hit, "deleted")
        /\ last' = Call("delete_todo", keyword, FALSE, "none", rowCount, <<>>,
                        IF rowCount > 0 THEN DeletedText(rowCount)
                        ELSE NoMatchingTodosFound)
  /\ UNCHANGED nextId
  /\ LoopUnchanged

RestoreTodo(keyword) ==
  /\ InTurn
  /\ LET hit == RestoreWhere(todos, keyword)
         rowCount == Cardinality(hit)
     IN /\ todos' = UpdateStatus(todos, hit, "active")
        /\ last' = Call("restore_todo", keyword, FALSE, "none", rowCount, <<>>,
                        IF rowCount > 0 THEN RestoredText(rowCount)
                        ELSE NoDeletedTodosMatched)
  /\ UNCHANGED nextId
  /\ LoopUnchanged

SearchTodo(keywordOrId) ==
  /\ InTurn
  /\ LET idNum == parseInt(keywordOrId)
     IN IF ~idNum.nan
        THEN IF idNum.big
             THEN last' = Call("search_todo", keywordOrId, FALSE, "query", 0, <<>>, <<>>)
             ELSE \E rows \in AnyOrder(SearchById(todos, idNum.val)) :
                    last' = Call("search_todo", keywordOrId, FALSE, "none",
                                 Len(rows), rows, Listing(rows))
        ELSE \E rows \in AnyOrder(SearchByText(todos, keywordOrId)) :
               last' = Call("search_todo", keywordOrId, FALSE, "none",
                            Len(rows), rows, Listing(rows))
  /\ UNCHANGED <<todos, nextId>>
  /\ LoopUnchanged

ReadTodo(given) ==
  /\ InTurn
  /\ LET showAll == ShowAllValue(given)
         rows == ByIdDesc(ReadWhere(todos, showAll))
     IN last' = Call("read_todo", <<>>, showAll, "none", Len(rows), rows, Listing(rows))
  /\ UNCHANGED <<todos, nextId>>
  /\ LoopUnchanged

\* db.query rejects because the storage is unreachable: nothing is written
StoreFault(tool) ==
  /\ InTurn
  /\ last' = Call(tool, <<>>, FALSE, "fault", 0, <<>>, <<>>)
  /\ UNCHANGED <<todos, nextId>>
  /\ LoopUnchanged

(* ---------------------------- the chat loop ---------------------------- *)
Exit == <<"e","x","i","t">>
\* lines the user may type
UserInputs ==
  { Exit, <<"E","X","I","T">>, <<"E","x","i","T">>, <<"h","i">> }

\* rl.question resolves; `exit` in any case leaves the loop
ReadLine(line) ==
  /\ pc = "prompt"
  /\ userInput' = line
  /\ IF toLowerCase(line) = Exit
     THEN pc' = "exiting" /\ turn' = turn
     ELSE pc' = "invoke" /\ turn' = "pending"
  /\ last' = NoCall
  /\ UNCHANGED <<todos, nextId, dbOpen, endCalls>>

\* agent.invoke resolved and the reply was printed
TurnOk ==
  /\ pc = "invoke"
  /\ pc' = "prompt"
  /\ turn' = "ok"
  /\ last' = NoCall
  /\ UNCHANGED <<todos, nextId, userInput, dbOpen, endCalls>>

\* mutant of TurnError: the catch block also ends the connection
TurnErrorClosing ==
  /\ pc = "invoke"
  /\ pc' = "prompt"
  /\ turn' = "error"
  /\ last' = NoCall
  /\ dbOpen' = FALSE
  /\ endCalls' = endCalls + 1
  /\ UNCHANGED <<todos, nextId, userInput>>

\* agent.invoke (or printing its reply) threw: console.error, next prompt
TurnError ==
  /\ pc = "invoke"
  /\ pc' = "prompt"
  /\ turn' = "error"
  /\ last' = NoCall
  /\ UNCHANGED <<todos, nextId, userInput, dbOpen, endCalls>>

\* after the loop: rl.close(); await db.end(); "Goodbye!"
Shutdown ==
  /\ pc = "exiting"
  /\ dbOpen' = FALSE
  /\ endCalls' = endCalls + 1
  /\ pc' = "done"
  /\ UNCHANGED <<todos, nextId, last, userInput, turn>>

(* --------------------------- the specification ------------------------- *)
\* after db.connect(), CREATE TABLE IF NOT EXISTS and chatLoop()'s banner
Init ==
  /\ todos = {}
  /\ nextId = 1
  /\ last = NoCall
  /\ pc = "prompt"
  /\ userInput = <<>>
  /\ turn = "none"
  /\ dbOpen = TRUE
  /\ endCalls = 0

Next ==
  \/ \E content \in Contents : AddTodo(content)
  \/ \E keyword \in Keywords : DeleteTodo(keyword)
  \/ \E keyword \in Keywords : RestoreTodo(keyword)
  \/ \E keywordOrId \in SearchArgs : SearchTodo(keywordOrId)
  \/ \E given \in ShowAllInputs : ReadTodo(given)
  \/ \E tool \in Tools : StoreFault(tool)
  \/ \E line \in UserInputs : ReadLine(line)
  \/ TurnOk
  \/ TurnError
  \/ Shutdown

Spec == Init /\ [][Next]_vars

(* ------------------------- vocabulary of the claims -------------------- *)
\* the step is a call of tool op that the database answered
Did(op) == last'.op = op /\ last'.err = "none"
\* the state follows a call of tool op that the database answered
Done(op) == last.op = op /\ last.err = "none"

\* s contains k as a literal substring
Contains(s, k) ==
  \E i \in 0..(Len(s) - Len(k)) : SubSeq(s, i + 1, i + Len(k)) = k
\* the same, ignoring letter case
ContainsIgnoreCase(s, k) == Contains(toLowerCase(s), toLowerCase(k))

\* a non-empty string of decimal digits
PurelyNumeric(s) == s # <<>> /\ \A i \in 1..Len(s) : IsDigit(s[i])

RECURSIVE StripZeros(_)
StripZeros(s) ==
  IF Len(s) > 1 /\ Head(s) = "0" THEN StripZeros(Tail(s)) ELSE s

\* the rows whose id is the number the digit string n denotes
RowsWithId(t, n) == {r \in t : NatToStr(r.id) = StripZeros(n)}

SeqRange(q) == {q[i] : i \in 1..Len(q)}

(* --------------------------------- C1 ---------------------------------- *)
\* the active rows delete_todo(k) is specified to transition
ActiveMatches(t, k) ==
  {r \in t : r.status = "active" /\ ILike(r.content, Pattern(k))}

C1_DeleteStep ==
  Did("delete_todo") =>
    LET k == last'.arg
        act == ActiveMatches(todos, k)
    IN /\ todos' = {IF r \in act THEN [r EXCEPT !.status = "deleted"] ELSE r : r \in todos}
       /\ last'.rowCount = Cardinality(act)
       /\ (last'.rowCount = 0 <=> last'.out = NoMatchingTodosFound)

\* a delete_todo(k) issued right after a delete_todo(k) finds nothing
C1_DeleteAgain ==
  Done("delete_todo") => Cardinality(DeleteWhere(todos, last.arg)) = 0

\* C1: delete_todo(k) changes only the rows that are active and match k,
\* sets them to deleted and reports the number of rows it took from active
\* to deleted; repeated at once, it transitions nothing and reports zero.
C1_DeleteCountsTransitions == []C1_DeleteAgain /\ [][C1_DeleteStep]_vars

(* --------------------------------- C2 ---------------------------------- *)
DeletedMatches(t, k) ==
  {r \in t : r.status = "deleted" /\ ILike(r.content, Pattern(k))}

C2_RestoreStep ==
  Did("restore_todo") =>
    LET k == last'.arg
        del == DeletedMatches(todos, k)
    IN /\ todos' = {IF r \in del THEN [r EXCEPT !.status = "active"] ELSE r : r \in todos}
       /\ last'.rowCount = Cardinality(del)
       /\ (del = {} =>
             /\ todos' = todos
             /\ last'.rowCount = 0
             /\ last'.out = NoDeletedTodosMatched)
       /\ (del # {} => last'.out = RestoredText(Cardinality(del)))

\* C2: restore_todo(k) changes only the rows that are deleted and match k,
\* sets them to active and reports their number; when every matching row is
\* already active it changes nothing and reports "No deleted todos matched."
C2_RestoreOnlyDeleted == [][C2_RestoreStep]_vars

\* a restore brought back some rows, left a deleted row that does not match
\* and an active row that it did not touch
C2_Witness ==
  /\ Done("restore_todo")
  /\ last.rowCount >= 1
  /\ \E r \in todos : r.status = "deleted" /\ ~ILike(r.content, Pattern(last.arg))
  /\ Cardinality({r \in todos : r.status = "active"}) > last.rowCount

(* --------------------------------- C3 ---------------------------------- *)
\* C3 as claimed: a search_todo argument that is not purely numeric never
\* returns a deleted row.
C3_NonNumericHidesDeleted ==
  (Done("search_todo") /\ ~PurelyNumeric(last.arg)) =>
    \A i \in 1..Len(last.rows) : last.rows[i].status # "deleted"

\* C3 as amended: an argument in which parseInt reads no integer is matched
\* as text against the active rows only, so it never returns a deleted row.
C3_TextSearchHidesDeleted ==
  (Done("search_todo") /\ parseInt(last.arg).nan) =>
    /\ \A i \in 1..Len(last.rows) : last.rows[i].status # "deleted"
    /\ SeqRange(last.rows) = ActiveMatches(todos, last.arg)
    /\ Len(last.rows) = Cardinality(ActiveMatches(todos, last.arg))

\* a text search returned a row while a deleted row matched the same text
C3_Witness ==
  /\ Done("search_todo")
  /\ parseInt(last.arg).nan
  /\ Len(last.rows) >= 1
  /\ DeletedMatches(todos, last.arg) # {}

(* --------------------------------- C4 ---------------------------------- *)
C4_AddStep ==
  Did("add_todo") =>
    \E r \in todos' :
      /\ r.content = last'.arg
      /\ r.status = "active"
      /\ r.id \notin Ids(todos)
      /\ todos' = todos \cup {r}
      /\ Cardinality(todos') = Cardinality(todos) + 1

\* the search on the new id (the sequence's last value) right after the add
C4_SearchAfterAdd ==
  (Done("add_todo") /\ Did("search_todo") /\ last'.arg = NatToStr(nextId - 1)) =>
    /\ last'.rows = <<Row(nextId - 1, last.arg, "active")>>
    /\ last'.out = RowLine(Row(nextId - 1, last.arg, "active"))

\* C4: add_todo(c) inserts exactly one row, with content c, status active
\* and an id no existing row holds, and leaves the other rows unchanged; a
\* search_todo on the new id right after returns that row alone.
C4_AddThenSearchById == [][C4_AddStep /\ C4_SearchAfterAdd]_vars

\* an add of a content another row already has; the id lookup of the new
\* row finds it alone
C4_Witness ==
  /\ Done("add_todo")
  /\ \E r \in todos : r.id # nextId - 1 /\ r.content = last.arg
  /\ SearchById(todos, parseInt(NatToStr(nextId - 1)).val)
       = {Row(nextId - 1, last.arg, "active")}

(* --------------------------------- C5 ---------------------------------- *)
C5_LiteralStep ==
  /\ (Did("delete_todo") \/ Did("restore_todo")) =>
       \A r \in todos : r \notin todos' => ContainsIgnoreCase(r.content, last'.arg)
  /\ (Did("restore_todo") \/ (Did("search_todo") /\ parseInt(last'.arg).nan)) =>
       LET wanted == {r \in todos :
                        /\ ContainsIgnoreCase(r.content, last'.arg)
                        /\ r.status = IF last'.op = "restore_todo"
                                      THEN "deleted" ELSE "active"}
       IN last'.rowCount = Cardinality(wanted)

\* C5: the rows delete_todo, restore_todo and a text search_todo treat as
\* matching k are exactly those whose content contains k literally,
\* ignoring case; % and _ in k are not wildcards.
C5_KeywordIsLiteral == [][C5_LiteralStep]_vars

(* --------------------------------- C6 ---------------------------------- *)
C6_Step ==
  /\ \A r \in todos :
       \E n \in todos' :
         /\ n.id = r.id
         /\ n.content = r.content
         /\ (n.status # r.status =>
               \/ r.status = "active" /\ n.status = "deleted" /\ Did("delete_todo")
               \/ r.status = "deleted" /\ n.status = "active" /\ Did("restore_todo"))
  /\ \A a, b \in todos' : a.id = b.id => a = b
  /\ \A r \in todos' : r.status \in {"active", "deleted"}
  /\ Cardinality(todos') # Cardinality(todos) => Did("add_todo")
  /\ (last'.op \in {"search_todo", "read_todo"}) => todos' = todos

\* C6: no row is ever removed, no id or content changes, ids are unique,
\* every status is active or deleted, a status changes only from active to
\* deleted by delete_todo or from deleted to active by restore_todo, and
\* search_todo and read_todo change nothing.
C6_SoftDeleteLifecycle == [][C6_Step]_vars

\* a full table in which a delete has just moved a row while another row
\* stays active
C6_Witness ==
  /\ Done("delete_todo")
  /\ last.rowCount >= 1
  /\ Cardinality(todos) >= 3
  /\ \E r \in todos : r.status = "active"
  /\ \E r \in todos : r.status = "deleted"

(* --------------------------------- C7 ---------------------------------- *)
\* C7: read_todo lists every row when showAll is true and exactly the active
\* rows otherwise, each once, by strictly descending id; an empty listing
\* is rendered as "No todos found."
C7_ReadListsByIdDesc ==
  Done("read_todo") =>
    /\ SeqRange(last.rows) =
         IF last.showAll THEN todos ELSE {r \in todos : r.status = "active"}
    /\ \A i, j \in 1..Len(last.rows) : i < j => last.rows[i].id > last.rows[j].id
    /\ (Len(last.rows) = 0 <=> last.out = NoTodosFound)

\* the default listing shows two active rows and hides a deleted one
C7_Witness ==
  /\ Done("read_todo")
  /\ ~last.showAll
  /\ Len(last.rows) >= 2
  /\ \E r \in todos : r.status = "deleted"

(* --------------------------------- C8 ---------------------------------- *)
\* C8: a purely numeric search_todo argument n is looked up by id: the
\* result is the row with id n whatever its status, at most one row, and
\* the empty result "No todos found.", without error, when no row has id n.
C8_NumericSearchById ==
  (last.op = "search_todo" /\ last.err # "fault" /\ PurelyNumeric(last.arg)) =>
    /\ last.err = "none"
    /\ SeqRange(last.rows) = RowsWithId(todos, last.arg)
    /\ Len(last.rows) <= 1
    /\ (RowsWithId(todos, last.arg) = {} => last.out = NoTodosFound)

(* --------------------------------- C9 ---------------------------------- *)
\* C9: every stored row has non-empty content.
C9_ContentNonEmpty == \A r \in todos : r.content # <<>>

(* --------------------------------- C10 --------------------------------- *)
C10_State ==
  /\ endCalls <= 1
  /\ dbOpen <=> endCalls = 0
  /\ ~dbOpen => pc = "done" /\ toLowerCase(userInput) = Exit
  /\ pc = "invoke" => dbOpen

C10_Step ==
  /\ (pc = "invoke" /\ turn' = "error") => pc' = "prompt" /\ dbOpen' /\ endCalls' = 0
  /\ last'.err # "none" => pc' = "invoke" /\ dbOpen'
  /\ dbOpen # dbOpen' => pc = "exiting" /\ toLowerCase(userInput) = Exit
  /\ ~dbOpen => last' = last /\ todos' = todos /\ pc' = pc

\* C10: a failed turn is logged and the loop prompts again with the
\* connection open; the connection is released only after the user typed
\* exit (in any case), once, and nothing is invoked after the release.
C10_ConnectionReleasedOnExit == []C10_State /\ [][C10_Step]_vars

\* the session ended on an upper-case EXIT after a turn that failed
C10_Witness ==
  /\ pc = "done"
  /\ ~dbOpen
  /\ endCalls = 1
  /\ turn = "error"
  /\ userInput # Exit
  /\ todos # {}

====
